---- MODULE Spec2Model ----
(***************************************************************************)
(* Model of the quick-registration front end: the registrant store         *)
(* (services/registrationService), and the admin dashboard's derived view  *)
(* (components/AdminDashboard).                                            *)
(*                                                                         *)
(* JavaScript strings are sequences of characters, "" is << >>.  The value *)
(* undefined is a sequence no string of the model equals.  A JSON object   *)
(* is a function from the keys it holds to their values: JSON.stringify    *)
(* drops the keys whose value is undefined, and reading a key the object   *)
(* does not hold yields undefined.                                         *)
(***************************************************************************)
EXTENDS Integers, Sequences, FiniteSets, TLC

VARIABLES
    localStorage,   \* the browser's key-value store: key -> serialized value
    now,            \* the wall clock, in milliseconds (Date.now())
    issued,         \* how many UUIDs crypto.randomUUID() has handed out
    call,           \* the store operation that ran last, with its arguments
    ret,            \* what that operation returned
    pre,            \* the registrants collection when that operation began
    created,        \* the record returned by the operation before it, when
                    \* that operation was addRegistrant, else null
    mounted,        \* the AdminDashboard component is mounted
    registrants,    \* AdminDashboard state: the listing it loaded
    filteredRegistrants,    \* AdminDashboard state: the filtered view
    isLoading,      \* AdminDashboard state
    searchTerm,     \* AdminDashboard state: the text of the search box
    deleteConfirm,  \* AdminDashboard state: the id awaiting confirmation, or null
    currentPage,    \* AdminDashboard state: the page index, from 1
    searchedFrom,   \* the page index the last change of the search term found,
                    \* while that change is the last thing the dashboard did;
                    \* else 0
    lastClick,      \* the Delete or Cancel button of a row clicked, and the id
                    \* of the row, while that click is the last thing the
                    \* dashboard did; else "none"
    admin,          \* AuthProvider state: the admin user, or null
    isAuthenticated,    \* AuthProvider state
    authPhase,      \* "rendered": the provider has rendered and its startup
                    \* effect has not run yet; "started": the effect has run
    authCall,       \* the last thing the provider did, with login's arguments
                    \* and result
    authPre,        \* the session, in memory and persisted, when that began
    loggedOut,      \* logout was called and no login has succeeded since
    uploadType,     \* RegistrationForm state: 'camera' or 'file'; the adapter of
                    \* that type is the one mounted
    photoData,      \* RegistrationForm state: the photo of the submission
    isCameraActive, \* CameraCapture state
    hasPermission,  \* CameraCapture state: null, true or false
    errorMessage,   \* CameraCapture state: a message or null
    capturedImage,  \* CameraCapture state: a data URL or null
    stream,         \* CameraCapture state: the MediaStream held; 0 stands for
                    \* null, n for the n-th stream getUserMedia resolved with
    pending,        \* getUserMedia calls of the mounted CameraCapture that have
                    \* not settled
    orphaned,       \* getUserMedia calls that have not settled, of CameraCapture
                    \* components since unmounted
    tracks,         \* the streams getUserMedia resolved with, in order: "live",
                    \* or "stopped" once their tracks are stopped
    camCall,        \* the last thing that happened to the camera adapter
    preview,        \* FileUpload state: a data URL or null
    error,          \* FileUpload state: a message or null
    reads,          \* the FileReader reads that have not completed
    fileCall,       \* the last file handed to handleFileChange or to
                    \* onFileSelect, what was done with it and the state it
                    \* found; op is the last event of the form's file path
    selection,      \* the files FileUpload accepted one after the other since
                    \* it was mounted, cleared or submitted
    tabs,           \* per browser tab: the store operation it is in, with the
                    \* collection it read, or idle
    expected,       \* the collection the completed operations of the tabs give
                    \* when each is applied whole, in the order of completion
    interleaved,    \* some operation completed after another tab had written
                    \* since it read
    route,          \* the admin route shown: "dashboard" or "edit"
    editId,         \* the id parameter of the route /admin/edit/:id
    editPhotoData,  \* EditRegistrant state: photoData
    editIsLoading,  \* EditRegistrant state: isLoading
    editError,      \* EditRegistrant state: error, a message or null
    editCall        \* the last thing EditRegistrant did, whether setPhotoData
                    \* had been called with a photo since the record was
                    \* loaded, and whether it navigated

storeVars == <<localStorage, now, issued, call, ret, pre, created>>

dashVars ==
    <<mounted, registrants, filteredRegistrants, isLoading, searchTerm,
      deleteConfirm, currentPage, searchedFrom, lastClick>>

authVars == <<admin, isAuthenticated, authPhase, authCall, authPre, loggedOut>>

formVars == <<uploadType, photoData>>

cameraVars ==
    <<isCameraActive, hasPermission, errorMessage, capturedImage, stream, pending,
      orphaned, tracks, camCall>>

uploadVars == <<preview, error, reads, fileCall, selection>>

\* the registration form with its two capture adapters
photoVars == <<formVars, cameraVars, uploadVars>>

tabVars == <<tabs, expected, interleaved>>

editVars == <<route, editId, editPhotoData, editIsLoading, editError, editCall>>

\* the tabs and the edit view
otherVars == <<tabVars, editVars>>

\* the state of the components outside the store and the dashboard
uiVars == <<authVars, photoVars, otherVars>>

vars == <<storeVars, dashVars, uiVars>>

-----------------------------------------------------------------------------
(* Bounds *)

MaxIds == 3         \* size of the UUID space the generator draws from
MaxTime == 1        \* the clock runs over 0..MaxTime
MaxRegistrations == 6   \* registrations submitted before the dashboard is used
MaxTabIds == 2      \* records created by the two tabs together


-----------------------------------------------------------------------------
(* JavaScript values *)

Undefined == <<"undefined">>
Null == <<"null">>
EmptyString == << >>

\* a returned value with its JavaScript type: "object" (a registrant),
\* "array", "boolean", "null" or "undefined"
Returned(kind, value) == [kind |-> kind, value |-> value]
ReturnedNull == Returned("null", Null)
ReturnedUndefined == Returned("undefined", Undefined)

\* the outcome of a store function: the storage it leaves and what it returns
Outcome(ls, returned) == [ls |-> ls, ret |-> returned]

\* JavaScript truthiness of a string-or-undefined value
Truthy(v) == v # Undefined /\ v # Null /\ v # EmptyString

\* a || b
Or(a, b) == IF Truthy(a) THEN a ELSE b

\* o.k : reading a key the object does not hold yields undefined
Prop(o, k) == IF k \in DOMAIN o THEN o[k] ELSE Undefined

\* JSON.parse(JSON.stringify(o)) of one object: keys holding undefined are dropped
JSONObject(o) == [k \in {j \in DOMAIN o : o[j] # Undefined} |-> o[k]]

\* JSON.parse(JSON.stringify(list)) of an array of objects
JSONArray(list) == [i \in 1..Len(list) |-> JSONObject(list[i])]

\* a list without its i-th element
RemoveAt(list, i) == SubSeq(list, 1, i - 1) \o SubSeq(list, i + 1, Len(list))

-----------------------------------------------------------------------------
(* services/registrationService *)

STORAGE_KEY == "registrants"

\* Date.now() rendered in a template literal
PhotoPath(t) == <<"photo_", ToString(t), ".jpg">>

\* new Date().toISOString() for a time within the first second of the epoch
ISOString(t) ==
    <<"1970-01-01T00:00:00.",
      ToString((t \div 100) % 10), ToString((t \div 10) % 10), ToString(t % 10),
      "Z">>

\* initializeStorage: create the empty collection when the key is missing
initializeStorage(ls) ==
    IF STORAGE_KEY \in DOMAIN ls THEN ls ELSE (STORAGE_KEY :> << >>) @@ ls

\* getAllRegistrants: the value it returns
getAllRegistrants(ls) == initializeStorage(ls)[STORAGE_KEY]

\* localStorage.setItem(STORAGE_KEY, JSON.stringify(list)) after getAllRegistrants
setItem(ls, list) == [initializeStorage(ls) EXCEPT ![STORAGE_KEY] = JSONArray(list)]

\* Array.prototype.findIndex by id: 0 stands for -1
findIndex(list, id) ==
    IF \E i \in 1..Len(list) : Prop(list[i], "id") = id
    THEN CHOOSE i \in 1..Len(list) :
            /\ Prop(list[i], "id") = id
            /\ \A j \in 1..(i - 1) : Prop(list[j], "id") # id
    ELSE 0

\* getRegistrantById with an assignment for the comparison (r.id = id), which
\* is truthy for every record: find returns the first record
getRegistrantByIdAssigning(ls, id) ==
    LET stored == getAllRegistrants(ls)
    IN  Outcome(initializeStorage(ls),
                IF Len(stored) = 0 THEN ReturnedUndefined
                ELSE Returned("object", stored[1]))

\* getRegistrantById: Array.prototype.find, the first match or undefined
getRegistrantById(ls, id) ==
    LET stored == getAllRegistrants(ls)
        index == findIndex(stored, id)
    IN  Outcome(initializeStorage(ls),
                IF index = 0 THEN ReturnedUndefined
                ELSE Returned("object", stored[index]))

\* the values crypto.randomUUID() returns: UUID(n) names its n-th draw (the
\* draws are 122 random bits each; the model takes them to be pairwise
\* distinct, and the program only ever compares them for equality)
UUID(n) == <<"uuid-", ToString(n)>>
UUIDs == {UUID(n) : n \in 1..MaxIds}

\* NewId with the id taken from the collection's length instead of the generator
NewIdFromLength(stored, uuid) == UUID(Len(stored) + 1)

\* the id addRegistrant gives the new record: the generator's draw
NewId(stored, uuid) == uuid

\* NewRegistrant with the path computed whether or not a photo was supplied
NewRegistrantAlwaysPath(stored, data, uuid, t) ==
    [id          |-> NewId(stored, uuid),
     fullName    |-> data.fullName,
     email       |-> data.email,
     phone       |-> data.phone,
     address     |-> data.address,
     gender      |-> data.gender,
     dateOfBirth |-> data.dateOfBirth,
     photoData   |-> data.photoData,
     photoPath   |-> PhotoPath(t),
     createdAt   |-> ISOString(t)]

\* addRegistrant: the object literal newRegistrant
NewRegistrant(stored, data, uuid, t) ==
    [id          |-> NewId(stored, uuid),
     fullName    |-> data.fullName,
     email       |-> data.email,
     phone       |-> data.phone,
     address     |-> data.address,
     gender      |-> data.gender,
     dateOfBirth |-> data.dateOfBirth,
     photoData   |-> data.photoData,
     photoPath   |-> IF Truthy(data.photoData) THEN PhotoPath(t) ELSE EmptyString,
     createdAt   |-> ISOString(t)]

\* UpdatedRegistrant with createdAt stamped again at the update
UpdatedRegistrantRestamped(old, data, t) ==
    [id          |-> Prop(old, "id"),
     createdAt   |-> ISOString(t),
     fullName    |-> data.fullName,
     email       |-> data.email,
     phone       |-> data.phone,
     address     |-> data.address,
     gender      |-> data.gender,
     dateOfBirth |-> data.dateOfBirth,
     photoData   |-> Or(data.photoData, Prop(old, "photoData")),
     photoPath   |-> IF Truthy(data.photoData) THEN PhotoPath(t) ELSE Prop(old, "photoPath")]

\* UpdatedRegistrant with the incoming photoData stored as it comes (no ||)
UpdatedRegistrantPhotoOverwritten(old, data, t) ==
    [id          |-> Prop(old, "id"),
     createdAt   |-> Prop(old, "createdAt"),
     fullName    |-> data.fullName,
     email       |-> data.email,
     phone       |-> data.phone,
     address     |-> data.address,
     gender      |-> data.gender,
     dateOfBirth |-> data.dateOfBirth,
     photoData   |-> data.photoData,
     photoPath   |-> IF Truthy(data.photoData) THEN PhotoPath(t) ELSE Prop(old, "photoPath")]

\* UpdatedRegistrant with the stored path kept when a new photo comes
UpdatedRegistrantPathKept(old, data, t) ==
    [id          |-> Prop(old, "id"),
     createdAt   |-> Prop(old, "createdAt"),
     fullName    |-> data.fullName,
     email       |-> data.email,
     phone       |-> data.phone,
     address     |-> data.address,
     gender      |-> data.gender,
     dateOfBirth |-> data.dateOfBirth,
     photoData   |-> Or(data.photoData, Prop(old, "photoData")),
     photoPath   |-> Prop(old, "photoPath")]

\* updateRegistrant: the object literal updatedRegistrant
\* ({...registrants[index], ...} keeps id and createdAt of the stored object)
UpdatedRegistrant(old, data, t) ==
    [id          |-> Prop(old, "id"),
     createdAt   |-> Prop(old, "createdAt"),
     fullName    |-> data.fullName,
     email       |-> data.email,
     phone       |-> data.phone,
     address     |-> data.address,
     gender      |-> data.gender,
     dateOfBirth |-> data.dateOfBirth,
     photoData   |-> Or(data.photoData, Prop(old, "photoData")),
     photoPath   |-> IF Truthy(data.photoData)
                     THEN PhotoPath(t)
                     ELSE Prop(old, "photoPath")]

\* addRegistrant with unshift for push: the new record goes first
addRegistrantUnshift(ls, data, uuid, t) ==
    LET stored == getAllRegistrants(ls)
        newRegistrant == NewRegistrant(stored, data, uuid, t)
    IN  Outcome(setItem(ls, <<newRegistrant>> \o stored),
                Returned("object", newRegistrant))

\* addRegistrant(data), with the generator's draw and the clock's reading
addRegistrant(ls, data, uuid, t) ==
    LET stored == getAllRegistrants(ls)
        newRegistrant == NewRegistrant(stored, data, uuid, t)
    IN  Outcome(setItem(ls, Append(stored, newRegistrant)),
                Returned("object", newRegistrant))

\* updateRegistrant that adds the record when the id is unknown (an upsert)
updateRegistrantUpsert(ls, id, data, t) ==
    LET stored == getAllRegistrants(ls)
        index == findIndex(stored, id)
        updatedRegistrant == UpdatedRegistrant(stored[index], data, t)
        inserted == NewRegistrant(stored, data, id, t)
    IN  IF index = 0
        THEN Outcome(setItem(ls, Append(stored, inserted)), ReturnedNull)
        ELSE Outcome(setItem(ls, [stored EXCEPT ![index] = updatedRegistrant]),
                     Returned("object", updatedRegistrant))

\* updateRegistrant that saves the updated record alone
updateRegistrantAlone(ls, id, data, t) ==
    LET stored == getAllRegistrants(ls)
        index == findIndex(stored, id)
        updatedRegistrant == UpdatedRegistrant(stored[index], data, t)
    IN  IF index = 0
        THEN Outcome(initializeStorage(ls), ReturnedNull)
        ELSE Outcome(setItem(ls, <<updatedRegistrant>>),
                     Returned("object", updatedRegistrant))

\* updateRegistrant(id, data), with the clock's reading
updateRegistrant(ls, id, data, t) ==
    LET stored == getAllRegistrants(ls)
        index == findIndex(stored, id)
        updatedRegistrant == UpdatedRegistrant(stored[index], data, t)
    IN  IF index = 0
        THEN Outcome(initializeStorage(ls), ReturnedNull)
        ELSE Outcome(setItem(ls, [stored EXCEPT ![index] = updatedRegistrant]),
                     Returned("object", updatedRegistrant))

\* FilterOut as splice(index) without a count: all records from the match on go
FilterOutSplice(list, id) ==
    IF findIndex(list, id) = 0 THEN list ELSE SubSeq(list, 1, findIndex(list, id) - 1)

\* Array.prototype.filter(registrant => registrant.id !== id)
FilterOut(list, id) == SelectSeq(list, LAMBDA r : Prop(r, "id") # id)

\* deleteRegistrant(id)
deleteRegistrant(ls, id) ==
    LET stored == getAllRegistrants(ls)
        remaining == FilterOut(stored, id)
    IN  IF Len(remaining) = Len(stored)
        THEN Outcome(initializeStorage(ls), Returned("boolean", FALSE))
        ELSE Outcome(setItem(ls, remaining), Returned("boolean", TRUE))

-----------------------------------------------------------------------------
(* Inputs of the store operations *)

Photo1 == <<"data:image/jpeg;base64,", "A">>
Photo2 == <<"data:image/png;base64,", "B">>

\* two settings of the six text fields, differing in every field
FieldsA ==
    [fullName |-> <<"A", "l">>, email |-> <<"a", "@", "x">>, phone |-> <<"1", "2">>,
     address |-> <<"r", "1">>, gender |-> <<"male">>, dateOfBirth |-> <<"1990-01-02">>]
FieldsB ==
    [fullName |-> <<"B", "o">>, email |-> <<"B", "@", "y">>, phone |-> <<"2", "3">>,
     address |-> <<"r", "2">>, gender |-> <<"female">>, dateOfBirth |-> <<"1985-06-07">>]

\* {...data, photoData}
WithPhoto(fields, photo) == ("photoData" :> photo) @@ fields

Data1 == WithPhoto(FieldsA, Photo1)
Data2 == WithPhoto(FieldsB, Undefined)
Data3 == WithPhoto(FieldsA, EmptyString)
Data4 == WithPhoto(FieldsB, Photo2)

\* RegistrantFormData values handed to addRegistrant and updateRegistrant
FormInputs == {Data1, Data2, Data3, Data4}

NoData == Undefined
NoId == EmptyString

-----------------------------------------------------------------------------
(* The store operations, one action per exported function *)

\* a click on the Delete or the Cancel button of the row of an id
Click(button, id) == [button |-> button, id |-> id]
NoClick == Click("none", Null)

\* the useState initial values of AdminDashboard, held while it is not mounted
Unmounted ==
    /\ mounted = FALSE
    /\ registrants = << >>
    /\ filteredRegistrants = << >>
    /\ isLoading = TRUE
    /\ searchTerm = EmptyString
    /\ deleteConfirm = Null
    /\ currentPage = 1
    /\ searchedFrom = 0
    /\ lastClick = NoClick

True == <<"true">>
False == <<"false">>

\* the useState initial values of AuthProvider, on its first render
FirstRender ==
    /\ admin = ReturnedNull
    /\ isAuthenticated = False
    /\ authPhase = "rendered"

\* the session: the provider's state and the value of localStorage.getItem
Session(adminState, authenticated, persisted) ==
    [admin |-> adminState, isAuthenticated |-> authenticated, persisted |-> persisted]

NoCredential == <<"none">>

\* the useState initial values of CameraCapture, no existingImage being given
CameraFirstRender ==
    /\ isCameraActive = FALSE
    /\ hasPermission = Null
    /\ errorMessage = Null
    /\ capturedImage = Null
    /\ stream = 0

\* the useState initial values of FileUpload
UploadFirstRender ==
    /\ preview = Null
    /\ error = Null

NoFile == [type |-> <<"none">>, size |-> 0]

\* the useState initial values of EditRegistrant; no id while the route is
\* not shown
EditFirstRender ==
    /\ editId = NoId
    /\ editPhotoData = EmptyString
    /\ editIsLoading = TRUE
    /\ editError = Null

\* what EditRegistrant did: the event, whether a photo had been captured or
\* uploaded in the view before it, and whether it called navigate
EditDid(op, supplied, navigated) ==
    [op |-> op, supplied |-> supplied, navigated |-> navigated]

\* the browser tabs that have the application open
Tabs == {1, 2}

\* a tab that is in no store operation
Idle ==
    [phase |-> "idle", op |-> "none", id |-> NoId, data |-> NoData,
     registrants |-> << >>, overtaken |-> FALSE]

Init ==
    /\ route = "dashboard"
    /\ EditFirstRender
    /\ editCall = EditDid("none", FALSE, FALSE)
    /\ selection = << >>
    /\ tabs = [tab \in Tabs |-> Idle]
    /\ expected = << >>
    /\ interleaved = FALSE
    /\ uploadType = <<"camera">>
    /\ photoData = EmptyString
    /\ CameraFirstRender
    /\ pending = 0
    /\ orphaned = 0
    /\ tracks = << >>
    /\ camCall = [op |-> "none", category |-> "none", mounted |-> FALSE, stream |-> 0,
                  delivered |-> << >>, photoData |-> EmptyString]
    /\ UploadFirstRender
    /\ reads = << >>
    /\ fileCall = [op |-> "none", file |-> NoFile, delivered |-> << >>,
                   photoData |-> EmptyString, stored |-> << >>]
    /\ FirstRender
    /\ authCall = [op |-> "none", username |-> NoCredential, password |-> NoCredential,
                   result |-> Undefined]
    /\ authPre = Session(ReturnedNull, False, ReturnedNull)
    /\ loggedOut = FALSE
    /\ localStorage = << >>
    /\ now = 0
    /\ issued = 0
    /\ call = [op |-> "none", id |-> NoId, data |-> NoData, at |-> 0]
    /\ ret = ReturnedNull
    /\ pre = << >>
    /\ created = ReturnedNull
    /\ Unmounted

\* time passes between two operations
Tick ==
    /\ now < MaxTime
    /\ now' = now + 1
    /\ UNCHANGED <<localStorage, issued, call, ret, pre, created>>
    /\ UNCHANGED <<dashVars, uiVars>>

\* the record the operation that just ran returned, when it was addRegistrant
JustCreated == IF call.op = "create" THEN ret ELSE ReturnedNull

\* a call of a store function: its outcome, and the record of the call
Called(op, id, data, outcome) ==
    /\ localStorage' = outcome.ls
    /\ ret' = outcome.ret
    /\ call' = [op |-> op, id |-> id, data |-> data, at |-> now]
    /\ pre' = getAllRegistrants(localStorage)
    /\ created' = JustCreated

\* addRegistrant(data)
Create(data) ==
    /\ issued < MaxIds
    /\ Called("create", NoId, data,
              addRegistrant(localStorage, data, UUID(issued + 1), now))
    /\ issued' = issued + 1
    /\ UNCHANGED now
    /\ UNCHANGED <<dashVars, uiVars>>

\* updateRegistrant(id, data)
Update(id, data) ==
    /\ Called("update", id, data, updateRegistrant(localStorage, id, data, now))
    /\ UNCHANGED <<now, issued>>
    /\ UNCHANGED <<dashVars, uiVars>>

\* deleteRegistrant(id)
Delete(id) ==
    /\ Called("delete", id, NoData, deleteRegistrant(localStorage, id))
    /\ UNCHANGED <<now, issued>>
    /\ UNCHANGED <<dashVars, uiVars>>

\* getRegistrantById(id)
GetById(id) ==
    /\ Called("getById", id, NoData, getRegistrantById(localStorage, id))
    /\ UNCHANGED <<now, issued>>
    /\ UNCHANGED <<dashVars, uiVars>>

\* getAllRegistrants()
List ==
    /\ Called("list", NoId, NoData,
              Outcome(initializeStorage(localStorage),
                      Returned("array", getAllRegistrants(localStorage))))
    /\ UNCHANGED <<now, issued>>
    /\ UNCHANGED <<dashVars, uiVars>>

Next ==
    \/ Tick
    \/ \E data \in FormInputs : Create(data)
    \/ \E id \in UUIDs, data \in FormInputs : Update(id, data)
    \/ \E id \in UUIDs : Delete(id)
    \/ \E id \in UUIDs : GetById(id)
    \/ List

Spec == Init /\ [][Next]_vars

\* the persisted collection, an absent key standing for the empty one
Collection == IF STORAGE_KEY \in DOMAIN localStorage THEN localStorage[STORAGE_KEY] ELSE << >>

-----------------------------------------------------------------------------
(* JavaScript string functions used by the dashboard *)

\* characters outside ASCII, by code point
CapitalAlpha == "U+0391"
SmallAlpha == "U+03B1"
CapitalSigma == "U+03A3"
SmallSigma == "U+03C3"
SmallFinalSigma == "U+03C2"

\* the cased letters of the model's alphabet, upper case with its lower case
UpperCase == <<"A", "B", "L", CapitalAlpha, CapitalSigma>>
LowerCase == <<"a", "b", "l", SmallAlpha, SmallSigma>>

\* Unicode property Cased, on the model's alphabet
Cased(c) ==
    \/ \E i \in 1..Len(UpperCase) : c = UpperCase[i] \/ c = LowerCase[i]
    \/ c = SmallFinalSigma

\* Unicode property Case_Ignorable, on the model's alphabet
CaseIgnorable(c) == c \in {".", "'"}

WhiteSpace == {" ", "TAB"}

\* the lower case of one character, out of context
LowerOf(c) ==
    IF \E i \in 1..Len(UpperCase) : c = UpperCase[i]
    THEN LowerCase[CHOOSE i \in 1..Len(UpperCase) : c = UpperCase[i]]
    ELSE c

\* Unicode condition Final_Sigma at position i: a cased letter before it, case-
\* ignorable characters apart, and no cased letter after it, likewise
FinalSigma(str, i) ==
    /\ \E j \in 1..(i - 1) :
           /\ Cased(str[j])
           /\ \A k \in (j + 1)..(i - 1) : CaseIgnorable(str[k])
    /\ ~\E j \in (i + 1)..Len(str) :
           /\ Cased(str[j])
           /\ \A k \in (i + 1)..(j - 1) : CaseIgnorable(str[k])

\* String.prototype.toLowerCase: the Unicode default case conversion, with the
\* context-dependent mapping of capital sigma (SpecialCasing, Final_Sigma)
toLowerCase(str) ==
    [i \in 1..Len(str) |->
        IF str[i] = CapitalSigma /\ FinalSigma(str, i)
        THEN SmallFinalSigma
        ELSE LowerOf(str[i])]

\* String.prototype.trim
trim(str) ==
    LET kept == {i \in 1..Len(str) : str[i] \notin WhiteSpace}
        first == CHOOSE i \in kept : \A j \in kept : i <= j
        last == CHOOSE i \in kept : \A j \in kept : i >= j
    IN  IF kept = {} THEN EmptyString ELSE SubSeq(str, first, last)

\* String.prototype.includes
includes(str, part) ==
    \E k \in 0..(Len(str) - Len(part)) : SubSeq(str, k + 1, k + Len(part)) = part

-----------------------------------------------------------------------------
(* components/AdminDashboard *)

itemsPerPage == 5

\* Ceil with Math.floor for Math.ceil
CeilFloor(n, k) == n \div k

\* Math.ceil(n / k)
Ceil(n, k) == (n + k - 1) \div k

\* the filter of the search effect
Matches(registrant, term) ==
    LET lowercasedSearch == toLowerCase(term)
    IN  \/ includes(toLowerCase(Prop(registrant, "fullName")), lowercasedSearch)
        \/ includes(toLowerCase(Prop(registrant, "email")), lowercasedSearch)
        \/ includes(Prop(registrant, "phone"), term)

\* the search effect: the value it gives filteredRegistrants
Filtered(list, term) ==
    IF trim(term) = EmptyString
    THEN list
    ELSE SelectSeq(list, LAMBDA registrant : Matches(registrant, term))

\* the pagination logic of a render
totalPages == Ceil(Len(filteredRegistrants), itemsPerPage)
indexOfLastItem == currentPage * itemsPerPage
indexOfFirstItem == indexOfLastItem - itemsPerPage

\* Array.prototype.slice(from, to), indices from 0, to exclusive
Slice(list, from, to) ==
    LET lo == IF from > Len(list) THEN Len(list) ELSE from
        hi == IF to > Len(list) THEN Len(list) ELSE to
    IN  IF hi <= lo THEN << >> ELSE SubSeq(list, lo + 1, hi)

\* the slice of a render whose page index is page
ItemsOfPage(list, page) ==
    Slice(list, page * itemsPerPage - itemsPerPage, page * itemsPerPage)

currentItems == Slice(filteredRegistrants, indexOfFirstItem, indexOfLastItem)

\* the render shows the table (not the spinner or one of the empty notices)
TableShown ==
    /\ mounted
    /\ ~isLoading
    /\ Len(registrants) # 0
    /\ Len(filteredRegistrants) # 0

\* the render shows the pagination controls
PaginationShown == TableShown /\ totalPages > 1

\* the people who register before the dashboard is used
Person1 ==
    [fullName |-> <<"A", "l">>, email |-> <<"b", "@", "x">>, phone |-> <<"1", "2">>,
     address |-> <<"r", "1">>, gender |-> <<"male">>, dateOfBirth |-> <<"1990-01-02">>]
Person2 ==
    [fullName |-> <<CapitalAlpha, CapitalSigma>>, email |-> <<"l", "@", "y">>,
     phone |-> <<"3", "4">>,
     address |-> <<"r", "2">>, gender |-> <<"female">>, dateOfBirth |-> <<"1985-06-07">>]
People == {Person1, Person2}

\* the texts typed into the search box
SearchTerms ==
    {EmptyString, <<" ">>, <<"a", "L">>, <<"B", "@">>, <<"3">>, <<CapitalSigma>>, <<"q">>}

\* the state the store's history variables take after loadRegistrants, the
\* storage being ls when getAllRegistrants is called
Loaded(ls, before) ==
    /\ localStorage' = initializeStorage(ls)
    /\ call' = [op |-> "list", id |-> NoId, data |-> NoData, at |-> now]
    /\ ret' = Returned("array", getAllRegistrants(ls))
    /\ pre' = getAllRegistrants(ls)
    /\ created' = before

\* the registration form's onSubmit with a photo: addRegistrant
Register(person) ==
    /\ ~mounted
    /\ issued < MaxRegistrations
    /\ Called("create", NoId, WithPhoto(person, Photo1),
              addRegistrant(localStorage, WithPhoto(person, Photo1), UUID(issued + 1), now))
    /\ issued' = issued + 1
    /\ UNCHANGED now
    /\ UNCHANGED <<dashVars, uiVars>>

\* AdminDashboard mounts: first render, the mount effect (loadRegistrants), the
\* search effect on the first render's empty listing, then the search effect
\* again on the loaded listing
Mount ==
    /\ ~mounted
    /\ mounted' = TRUE
    /\ Loaded(localStorage, JustCreated)
    /\ registrants' = getAllRegistrants(localStorage)
    /\ filteredRegistrants' = Filtered(getAllRegistrants(localStorage), EmptyString)
    /\ isLoading' = FALSE
    /\ searchTerm' = EmptyString
    /\ deleteConfirm' = Null
    /\ currentPage' = 1
    /\ searchedFrom' = 0
    /\ lastClick' = NoClick
    /\ UNCHANGED <<now, issued>>
    /\ UNCHANGED uiVars

\* navigation away from the dashboard: its state is discarded
Unmount ==
    /\ mounted
    /\ mounted' = FALSE
    /\ registrants' = << >>
    /\ filteredRegistrants' = << >>
    /\ isLoading' = TRUE
    /\ searchTerm' = EmptyString
    /\ deleteConfirm' = Null
    /\ currentPage' = 1
    /\ searchedFrom' = 0
    /\ lastClick' = NoClick
    /\ UNCHANGED <<storeVars, uiVars>>

\* SetSearchTerm with a search effect that does not call setCurrentPage(1)
SetSearchTermKeepingPage(term) ==
    /\ mounted
    /\ term # searchTerm
    /\ searchTerm' = term
    /\ filteredRegistrants' = Filtered(registrants, term)
    /\ searchedFrom' = currentPage
    /\ lastClick' = NoClick
    /\ UNCHANGED <<mounted, registrants, isLoading, deleteConfirm, currentPage>>
    /\ UNCHANGED <<storeVars, uiVars>>

\* onChange of the search box, and the search effect it triggers
SetSearchTerm(term) ==
    /\ mounted
    /\ term # searchTerm
    /\ searchTerm' = term
    /\ filteredRegistrants' = Filtered(registrants, term)
    /\ currentPage' = 1
    /\ searchedFrom' = currentPage
    /\ lastClick' = NoClick
    /\ UNCHANGED <<mounted, registrants, isLoading, deleteConfirm>>
    /\ UNCHANGED <<storeVars, uiVars>>

\* paginate(pageNumber)
paginate(pageNumber) ==
    /\ currentPage' = pageNumber
    /\ searchedFrom' = 0
    /\ lastClick' = NoClick
    /\ UNCHANGED <<mounted, registrants, filteredRegistrants, isLoading, searchTerm,
                   deleteConfirm>>
    /\ UNCHANGED <<storeVars, uiVars>>

\* Math.max and Math.min
Max(a, b) == IF a >= b THEN a ELSE b
Min(a, b) == IF a <= b THEN a ELSE b

\* the Previous button
PreviousPage ==
    /\ PaginationShown
    /\ currentPage # 1
    /\ paginate(Max(1, currentPage - 1))

\* the Next button
NextPage ==
    /\ PaginationShown
    /\ currentPage # totalPages
    /\ paginate(Min(totalPages, currentPage + 1))

\* a page number button
GoToPage(index) ==
    /\ PaginationShown
    /\ index \in 0..(totalPages - 1)
    /\ paginate(index + 1)

\* the ids of the rows the render shows
RowIds == IF TableShown THEN {Prop(currentItems[i], "id") : i \in 1..Len(currentItems)} ELSE {}

\* handleDelete with a search effect that depends on searchTerm only, so that
\* the reloaded listing does not reset the page
handleDeleteKeepingPage(id) ==
    /\ id \in RowIds
    /\ searchedFrom' = 0
    /\ lastClick' = Click("delete", id)
    /\ IF deleteConfirm = id
       THEN LET deleted == deleteRegistrant(localStorage, id)
                data == getAllRegistrants(deleted.ls)
            IN  /\ Loaded(deleted.ls, ReturnedNull)
                /\ registrants' = data
                /\ filteredRegistrants' = data
                /\ deleteConfirm' = Null
                /\ UNCHANGED <<mounted, isLoading, searchTerm, currentPage>>
       ELSE /\ deleteConfirm' = id
            /\ UNCHANGED <<mounted, registrants, filteredRegistrants, isLoading,
                           searchTerm, currentPage>>
            /\ UNCHANGED <<localStorage, call, ret, pre, created>>
    /\ UNCHANGED <<now, issued>>
    /\ UNCHANGED uiVars

\* handleDelete that deletes at the first click
handleDeleteAtOnce(id) ==
    /\ id \in RowIds
    /\ searchedFrom' = 0
    /\ lastClick' = Click("delete", id)
    /\ LET deleted == deleteRegistrant(localStorage, id)
           data == getAllRegistrants(deleted.ls)
       IN  /\ Loaded(deleted.ls, ReturnedNull)
           /\ registrants' = data
           /\ filteredRegistrants' = Filtered(data, searchTerm)
           /\ deleteConfirm' = Null
           /\ currentPage' = 1
           /\ UNCHANGED <<mounted, isLoading, searchTerm>>
    /\ UNCHANGED <<now, issued>>
    /\ UNCHANGED uiVars

\* handleDelete(id) from a row's delete button; when confirmed:
\* deleteRegistrant, loadRegistrants, then the search effect on the new listing
handleDelete(id) ==
    /\ id \in RowIds
    /\ searchedFrom' = 0
    /\ lastClick' = Click("delete", id)
    /\ IF deleteConfirm = id
       THEN LET deleted == deleteRegistrant(localStorage, id)
                data == getAllRegistrants(deleted.ls)
            IN  /\ Loaded(deleted.ls, ReturnedNull)
                /\ registrants' = data
                /\ filteredRegistrants' = Filtered(data, searchTerm)
                /\ deleteConfirm' = Null
                /\ currentPage' = 1
                /\ UNCHANGED <<mounted, isLoading, searchTerm>>
       ELSE /\ deleteConfirm' = id
            /\ UNCHANGED <<mounted, registrants, filteredRegistrants, isLoading,
                           searchTerm, currentPage>>
            /\ UNCHANGED <<localStorage, call, ret, pre, created>>
    /\ UNCHANGED <<now, issued>>
    /\ UNCHANGED uiVars

\* cancelDelete, from the Cancel button of the row awaiting confirmation
cancelDelete ==
    /\ deleteConfirm \in RowIds
    /\ deleteConfirm' = Null
    /\ searchedFrom' = 0
    /\ lastClick' = Click("cancel", deleteConfirm)
    /\ UNCHANGED <<mounted, registrants, filteredRegistrants, isLoading, searchTerm,
                   currentPage>>
    /\ UNCHANGED <<storeVars, uiVars>>

DashNext ==
    \/ \E person \in People : Register(person)
    \/ Mount
    \/ Unmount
    \/ \E term \in SearchTerms : SetSearchTerm(term)
    \/ PreviousPage
    \/ NextPage
    \/ \E index \in 0..MaxRegistrations : GoToPage(index)
    \/ \E n \in 1..MaxRegistrations : handleDelete(UUID(n))
    \/ cancelDelete

DashSpec == Init /\ [][DashNext]_vars

-----------------------------------------------------------------------------
(* contexts/AuthContext *)

ADMIN_KEY == "admin"

\* localStorage.getItem(key): the stored string, or null
getItem(ls, key) ==
    IF key \in DOMAIN ls THEN Returned("string", ls[key]) ELSE ReturnedNull

\* localStorage.removeItem(key)
removeItem(ls, key) == [k \in DOMAIN ls \ {key} |-> ls[k]]

\* the object login builds for the user
adminUser(username) == ("username" :> username) @@ ("isAuthenticated" :> True)

\* the names and passwords typed into the login form
Usernames == {<<"admin">>, <<"Admin">>, <<"admin", " ">>, EmptyString}
Passwords == {<<"admin123">>, <<"admin">>, <<"Admin123">>, EmptyString}

\* the one pair login accepts
ValidPair(username, password) == username = <<"admin">> /\ password = <<"admin123">>

\* the session as it is
CurrentSession == Session(admin, isAuthenticated, getItem(localStorage, ADMIN_KEY))

\* what the provider did last
Did(op, username, password, result) ==
    /\ authCall' = [op |-> op, username |-> username, password |-> password,
                    result |-> result]
    /\ authPre' = CurrentSession

\* the startup effect: the session restored from localStorage
Startup ==
    /\ authPhase = "rendered"
    /\ authPhase' = "started"
    /\ LET storedAdmin == getItem(localStorage, ADMIN_KEY)
       IN  IF storedAdmin.kind # "null"
           THEN LET parsedAdmin == JSONObject(storedAdmin.value)
                IN  /\ admin' = Returned("object", parsedAdmin)
                    /\ isAuthenticated' = Prop(parsedAdmin, "isAuthenticated")
           ELSE UNCHANGED <<admin, isAuthenticated>>
    /\ Did("startup", NoCredential, NoCredential, Undefined)
    /\ UNCHANGED <<localStorage, loggedOut>>
    /\ UNCHANGED <<now, issued, call, ret, pre, created>>
    /\ UNCHANGED <<dashVars, photoVars, otherVars>>

\* login that does not persist the session
loginNotPersisting(username, password) ==
    /\ authPhase = "started"
    /\ IF ValidPair(username, password)
       THEN /\ admin' = Returned("object", adminUser(username))
            /\ isAuthenticated' = True
            /\ loggedOut' = FALSE
            /\ Did("login", username, password, True)
       ELSE /\ Did("login", username, password, False)
            /\ UNCHANGED <<admin, isAuthenticated, loggedOut>>
    /\ UNCHANGED <<localStorage, authPhase>>
    /\ UNCHANGED <<now, issued, call, ret, pre, created>>
    /\ UNCHANGED <<dashVars, photoVars, otherVars>>

\* login that compares the username only
loginByUsername(username, password) ==
    /\ authPhase = "started"
    /\ IF username = <<"admin">>
       THEN /\ admin' = Returned("object", adminUser(username))
            /\ isAuthenticated' = True
            /\ localStorage' = (ADMIN_KEY :> JSONObject(adminUser(username))) @@ localStorage
            /\ loggedOut' = FALSE
            /\ Did("login", username, password, True)
       ELSE /\ Did("login", username, password, False)
            /\ UNCHANGED <<admin, isAuthenticated, localStorage, loggedOut>>
    /\ UNCHANGED authPhase
    /\ UNCHANGED <<now, issued, call, ret, pre, created>>
    /\ UNCHANGED <<dashVars, photoVars, otherVars>>

\* login(username, password)
login(username, password) ==
    /\ authPhase = "started"
    /\ IF ValidPair(username, password)
       THEN /\ admin' = Returned("object", adminUser(username))
            /\ isAuthenticated' = True
            /\ localStorage' = (ADMIN_KEY :> JSONObject(adminUser(username))) @@ localStorage
            /\ loggedOut' = FALSE
            /\ Did("login", username, password, True)
       ELSE /\ Did("login", username, password, False)
            /\ UNCHANGED <<admin, isAuthenticated, localStorage, loggedOut>>
    /\ UNCHANGED authPhase
    /\ UNCHANGED <<now, issued, call, ret, pre, created>>
    /\ UNCHANGED <<dashVars, photoVars, otherVars>>

\* logout that leaves the persisted session in place
logoutInMemory ==
    /\ authPhase = "started"
    /\ admin' = ReturnedNull
    /\ isAuthenticated' = False
    /\ loggedOut' = TRUE
    /\ Did("logout", NoCredential, NoCredential, Undefined)
    /\ UNCHANGED <<localStorage, authPhase>>
    /\ UNCHANGED <<now, issued, call, ret, pre, created>>
    /\ UNCHANGED <<dashVars, photoVars, otherVars>>

\* logout that keeps the admin record in memory
logoutKeepingAdmin ==
    /\ authPhase = "started"
    /\ isAuthenticated' = False
    /\ localStorage' = removeItem(localStorage, ADMIN_KEY)
    /\ loggedOut' = TRUE
    /\ Did("logout", NoCredential, NoCredential, Undefined)
    /\ UNCHANGED <<admin, authPhase>>
    /\ UNCHANGED <<now, issued, call, ret, pre, created>>
    /\ UNCHANGED <<dashVars, photoVars, otherVars>>

\* logout()
logout ==
    /\ authPhase = "started"
    /\ admin' = ReturnedNull
    /\ isAuthenticated' = False
    /\ localStorage' = removeItem(localStorage, ADMIN_KEY)
    /\ loggedOut' = TRUE
    /\ Did("logout", NoCredential, NoCredential, Undefined)
    /\ UNCHANGED authPhase
    /\ UNCHANGED <<now, issued, call, ret, pre, created>>
    /\ UNCHANGED <<dashVars, photoVars, otherVars>>

\* the page is loaded again: the provider's state is that of a first render,
\* localStorage is kept
Restart ==
    /\ authPhase = "started"
    /\ admin' = ReturnedNull
    /\ isAuthenticated' = False
    /\ authPhase' = "rendered"
    /\ Did("restart", NoCredential, NoCredential, Undefined)
    /\ UNCHANGED <<localStorage, loggedOut>>
    /\ UNCHANGED <<now, issued, call, ret, pre, created>>
    /\ UNCHANGED <<dashVars, photoVars, otherVars>>

\* the registration form is served next to the admin pages, and the store
\* shares localStorage with the session
AuthNext ==
    \/ \E person \in People : Register(person)
    \/ Startup
    \/ \E username \in Usernames, password \in Passwords : login(username, password)
    \/ logout
    \/ Restart

AuthSpec == Init /\ [][AuthNext]_vars

\* React runs the effect of a rendered provider
AuthLive == AuthSpec /\ WF_vars(Startup)

-----------------------------------------------------------------------------
(* components/RegistrationForm: the two capture adapters *)

MaxRequests == 2    \* getUserMedia calls that have not settled, at a time
MaxStreams == 3     \* streams getUserMedia resolves with
MaxReads == 4       \* FileReader reads that have not completed, at a time
MaxSubmissions == 2 \* records the registration form creates

\* the adapter the form renders
CameraMounted == uploadType = <<"camera">>
UploadMounted == uploadType = <<"file">>

\* tracks.forEach(track => track.stop()) of the stream s, when there is one
StopTracks(all, s) == IF s = 0 THEN all ELSE [all EXCEPT ![s] = "stopped"]

\* what happened last to the camera adapter: the event, the category of the
\* failure, whether the component of the request was mounted, the stream
\* getUserMedia resolved with, the values handed to onCapture, and the owner's
\* photoData before
Happened(op, category, wasMounted, mediaStream, delivered) ==
    camCall' = [op |-> op, category |-> category, mounted |-> wasMounted,
                stream |-> mediaStream, delivered |-> delivered, photoData |-> photoData]

\* the reads of FileUpload's own reader lose their component when it unmounts
Detached(pendingReads) ==
    [i \in 1..Len(pendingReads) |->
        IF pendingReads[i].target = "preview"
        THEN [pendingReads[i] EXCEPT !.target = "unmounted"]
        ELSE pendingReads[i]]

\* setUploadType from the Camera and Upload File buttons: the adapter shown is
\* unmounted (the cleanup of CameraCapture's [stream] effect runs, the requests
\* and reads it started stay in flight) and the other one is mounted with its
\* initial state
setUploadType(type) ==
    /\ type # uploadType
    /\ uploadType' = type
    /\ tracks' = StopTracks(tracks, stream)
    /\ orphaned' = orphaned + pending
    /\ pending' = 0
    /\ isCameraActive' = FALSE
    /\ hasPermission' = Null
    /\ errorMessage' = Null
    /\ capturedImage' = Null
    /\ stream' = 0
    /\ preview' = Null
    /\ error' = Null
    /\ reads' = Detached(reads)
    /\ Happened("setUploadType", "none", TRUE, 0, << >>)
    /\ fileCall' = [fileCall EXCEPT !.op = "setUploadType"]
    /\ selection' = << >>
    /\ UNCHANGED photoData
    /\ UNCHANGED <<storeVars, dashVars, authVars, otherVars>>

-----------------------------------------------------------------------------
(* components/CameraCapture *)

\* error.name of the rejection of getUserMedia; a value that is no Error goes
\* with the names the catch block does not list
Categories == {"NotAllowedError", "NotFoundError", "NotReadableError", "TypeError"}

\* the message of the catch block before it looks at error.name
MessageDefault(category) ==
    <<"Camera access denied or not available. Please use file upload instead.">>

\* the catch block without its look at error.name
MessageIgnoringName(category) == MessageDefault(category)

\* the message of the catch block
Message(category) ==
    CASE category = "NotAllowedError" ->
            <<"Camera permission was denied. Please allow camera access and try again.">>
      [] category = "NotFoundError" ->
            <<"No camera found on your device. Please use file upload instead.">>
      [] category = "NotReadableError" ->
            <<"Camera is in use by another application. Please close other apps using the camera.">>
      [] OTHER -> MessageDefault(category)

\* videoRef.current is the video element: it is rendered when isCameraActive
VideoRendered == CameraMounted /\ isCameraActive

\* the Open Camera button is rendered
OpenCameraShown == CameraMounted /\ ~isCameraActive /\ capturedImage = Null

\* canvas.toDataURL('image/jpeg', 0.8) of a frame of the stream s
Snapshot(s) == <<"data:image/jpeg;base64,", "frame of stream ", ToString(s)>>

\* startCamera up to its await: getUserMedia is called
startCamera ==
    /\ OpenCameraShown
    /\ pending + orphaned < MaxRequests
    /\ pending' = pending + 1
    /\ Happened("startCamera", "none", TRUE, 0, << >>)
    /\ UNCHANGED <<isCameraActive, hasPermission, errorMessage, capturedImage, stream,
                   orphaned, tracks>>
    /\ UNCHANGED <<formVars, uploadVars>>
    /\ UNCHANGED <<storeVars, dashVars, authVars, otherVars>>

\* getUserMedia resolves for the mounted component: startCamera after its
\* await. setStream runs the cleanup of the [stream] effect on the stream held
\* before.
Granted ==
    /\ pending > 0
    /\ Len(tracks) < MaxStreams
    /\ pending' = pending - 1
    /\ LET mediaStream == Len(tracks) + 1
       IN  IF VideoRendered
           THEN /\ tracks' = Append(StopTracks(tracks, stream), "live")
                /\ stream' = mediaStream
                /\ isCameraActive' = TRUE
                /\ hasPermission' = True
                /\ errorMessage' = Null
                /\ Happened("granted", "none", TRUE, mediaStream, << >>)
           ELSE /\ tracks' = Append(tracks, "live")
                /\ Happened("granted", "none", TRUE, mediaStream, << >>)
                /\ UNCHANGED <<stream, isCameraActive, hasPermission, errorMessage>>
    /\ UNCHANGED <<capturedImage, orphaned>>
    /\ UNCHANGED <<formVars, uploadVars>>
    /\ UNCHANGED <<storeVars, dashVars, authVars, otherVars>>

\* getUserMedia resolves for a component that was unmounted meanwhile: its
\* videoRef.current is null
GrantedUnmounted ==
    /\ orphaned > 0
    /\ Len(tracks) < MaxStreams
    /\ orphaned' = orphaned - 1
    /\ tracks' = Append(tracks, "live")
    /\ Happened("granted", "none", FALSE, Len(tracks) + 1, << >>)
    /\ UNCHANGED <<isCameraActive, hasPermission, errorMessage, capturedImage, stream,
                   pending>>
    /\ UNCHANGED <<formVars, uploadVars>>
    /\ UNCHANGED <<storeVars, dashVars, authVars, otherVars>>

\* getUserMedia rejects for the mounted component: the catch block
Failed(category) ==
    /\ pending > 0
    /\ pending' = pending - 1
    /\ hasPermission' = False
    /\ errorMessage' = Message(category)
    /\ isCameraActive' = FALSE
    /\ Happened("failed", category, TRUE, 0, << >>)
    /\ UNCHANGED <<capturedImage, stream, orphaned, tracks>>
    /\ UNCHANGED <<formVars, uploadVars>>
    /\ UNCHANGED <<storeVars, dashVars, authVars, otherVars>>

\* getUserMedia rejects for a component that was unmounted meanwhile: the
\* setters of an unmounted component change nothing
FailedUnmounted(category) ==
    /\ orphaned > 0
    /\ orphaned' = orphaned - 1
    /\ Happened("failed", category, FALSE, 0, << >>)
    /\ UNCHANGED <<isCameraActive, hasPermission, errorMessage, capturedImage, stream,
                   pending, tracks>>
    /\ UNCHANGED <<formVars, uploadVars>>
    /\ UNCHANGED <<storeVars, dashVars, authVars, otherVars>>

\* stopCamera, from the Cancel button, which is rendered when isCameraActive
stopCamera ==
    /\ CameraMounted
    /\ isCameraActive
    /\ tracks' = StopTracks(tracks, stream)
    /\ stream' = 0
    /\ isCameraActive' = FALSE
    /\ Happened("stopCamera", "none", TRUE, stream, << >>)
    /\ UNCHANGED <<hasPermission, errorMessage, capturedImage, pending, orphaned>>
    /\ UNCHANGED <<formVars, uploadVars>>
    /\ UNCHANGED <<storeVars, dashVars, authVars, otherVars>>

\* captureImage, from the Capture button, which is rendered when
\* isCameraActive: the snapshot, onCapture (handlePhotoCapture of the form),
\* then stopCamera
captureImage ==
    /\ CameraMounted
    /\ isCameraActive
    /\ IF VideoRendered
       THEN /\ capturedImage' = Snapshot(stream)
            /\ photoData' = Snapshot(stream)
            /\ tracks' = StopTracks(tracks, stream)
            /\ stream' = 0
            /\ isCameraActive' = FALSE
            /\ Happened("captureImage", "none", TRUE, stream, <<Snapshot(stream)>>)
       ELSE /\ Happened("captureImage", "none", TRUE, stream, << >>)
            /\ UNCHANGED <<capturedImage, photoData, tracks, stream, isCameraActive>>
    /\ UNCHANGED <<hasPermission, errorMessage, pending, orphaned>>
    /\ UNCHANGED <<uploadType, uploadVars>>
    /\ UNCHANGED <<storeVars, dashVars, authVars, otherVars>>

\* the events of the camera adapter in the form. The Capture and Cancel
\* buttons belong to the block rendered when isCameraActive: captureImage and
\* stopCamera are enabled in no state of CameraWithControls, which adds them.
CameraNext ==
    \/ \E type \in {<<"camera">>, <<"file">>} : setUploadType(type)
    \/ startCamera
    \/ Granted
    \/ GrantedUnmounted
    \/ \E category \in Categories : Failed(category)
    \/ \E category \in Categories : FailedUnmounted(category)

CameraSpec == Init /\ [][CameraNext]_vars

\* CameraSpec with the two buttons of the active camera
CameraWithControls == Init /\ [][CameraNext \/ stopCamera \/ captureImage]_vars

\* holds of CameraWithControls: the video element is rendered when
\* isCameraActive, and isCameraActive is set when the video element is there
CameraNeverActive == ~isCameraActive /\ stream = 0 /\ capturedImage = Null

-----------------------------------------------------------------------------
(* components/FileUpload *)

\* the ceiling of the size check, in bytes
MaxFileSize == 5 * 1024 * 1024

\* file.type of the files chosen, in pieces: two images, a document, a disk
\* image (.dmg) and a file whose type the browser does not know
FileTypes ==
    {<<"image", "/", "png">>, <<"image", "/", "jpeg">>, <<"application", "/", "pdf">>,
     <<"application", "/", "x-apple-disk", "image">>, EmptyString}

\* file.size of the files chosen
FileSizes == {0, MaxFileSize - 1, MaxFileSize, MaxFileSize + 1}

Files == [type : FileTypes, size : FileSizes]

\* file.type.match('image.*'): the string is made a regular expression, which
\* matches at any place of the type
MatchesImage(type) == includes(type, <<"image">>)

\* reader.readAsDataURL(file): the result
DataURL(file) == <<"data:">> \o file.type \o <<";base64,", ToString(file.size), " bytes">>

\* a read in flight: the setter its onload calls, and the file
Read(target, file) == [target |-> target, file |-> file]

\* what handleFileChange did: the files handed to onFileSelect, with the
\* owner's photoData and the storage before
Handled(file, delivered) ==
    fileCall' = [op |-> "handleFileChange", file |-> file, delivered |-> delivered,
                 photoData |-> photoData, stored |-> localStorage]

\* handleFileChange with a file, from the input the drop zone opens (the drop
\* zone is rendered when there is no preview); on acceptance FileUpload's
\* reader and, through onFileSelect, the reader of the form's handleFileUpload
\* start
handleFileChange(file) ==
    /\ UploadMounted
    /\ preview = Null
    /\ IF ~MatchesImage(file.type)
       THEN /\ error' = <<"Please select an image file (JPEG, PNG, etc.)">>
            /\ Handled(file, << >>)
            /\ UNCHANGED <<reads, selection>>
       ELSE IF file.size > MaxFileSize
       THEN /\ error' = <<"File is too large. Maximum size is 5MB.">>
            /\ Handled(file, << >>)
            /\ UNCHANGED <<reads, selection>>
       ELSE /\ Len(reads) + 2 <= MaxReads
            /\ error' = Null
            /\ reads' = reads \o <<Read("preview", file), Read("photoData", file)>>
            /\ selection' = Append(selection, file)
            /\ Handled(file, <<file>>)
    /\ UNCHANGED preview
    /\ UNCHANGED <<formVars, cameraVars>>
    /\ UNCHANGED <<storeVars, dashVars, authVars, otherVars>>

\* handleFileChange when the dialog was closed with no file: if (!file) return
handleFileChangeNoFile ==
    /\ UploadMounted
    /\ preview = Null
    /\ Handled(NoFile, << >>)
    /\ UNCHANGED <<preview, error, reads, selection>>
    /\ UNCHANGED <<formVars, cameraVars>>
    /\ UNCHANGED <<storeVars, dashVars, authVars, otherVars>>

\* reader.onload of the read i: setPreview in a mounted FileUpload,
\* setPhotoData in the form
onload(i) ==
    /\ i \in 1..Len(reads)
    /\ reads' = RemoveAt(reads, i)
    /\ preview' = IF reads[i].target = "preview" THEN DataURL(reads[i].file) ELSE preview
    /\ photoData' = IF reads[i].target = "photoData" /\ Truthy(DataURL(reads[i].file))
                    THEN DataURL(reads[i].file)
                    ELSE photoData
    /\ fileCall' = [fileCall EXCEPT !.op = "onload"]
    /\ UNCHANGED <<uploadType, error, selection>>
    /\ UNCHANGED cameraVars
    /\ UNCHANGED <<storeVars, dashVars, authVars, otherVars>>

\* the read i fails: the readers have no onerror
onerror(i) ==
    /\ i \in 1..Len(reads)
    /\ reads' = RemoveAt(reads, i)
    /\ fileCall' = [fileCall EXCEPT !.op = "onerror"]
    /\ selection' = << >>
    /\ UNCHANGED <<preview, error>>
    /\ UNCHANGED <<formVars, cameraVars>>
    /\ UNCHANGED <<storeVars, dashVars, authVars, otherVars>>

UploadNext ==
    \/ \E type \in {<<"camera">>, <<"file">>} : setUploadType(type)
    \/ \E file \in Files : reads = << >> /\ handleFileChange(file)
    \/ handleFileChangeNoFile
    \/ \E i \in 1..MaxReads : onload(i)
    \/ \E i \in 1..MaxReads : onerror(i)

UploadSpec == Init /\ [][UploadNext]_vars

\* new File([], ''): no bytes, no name, no type
EmptyFile == [type |-> EmptyString, size |-> 0]

\* clearImage of FileUpload, from the button over the preview: the preview
\* goes and onFileSelect is called with an empty file, which the form's
\* handleFileUpload hands to a reader of its own
clearImage ==
    /\ UploadMounted
    /\ preview # Null
    /\ Len(reads) + 1 <= MaxReads
    /\ preview' = Null
    /\ reads' = Append(reads, Read("photoData", EmptyFile))
    /\ selection' = << >>
    /\ fileCall' = [op |-> "clearImage", file |-> EmptyFile, delivered |-> <<EmptyFile>>,
                    photoData |-> photoData, stored |-> localStorage]
    /\ UNCHANGED error
    /\ UNCHANGED <<formVars, cameraVars>>
    /\ UNCHANGED <<storeVars, dashVars, authVars, otherVars>>

\* what onSubmit found: the form's photoData and the storage before it
Submitted ==
    /\ fileCall' = [fileCall EXCEPT !.op = "onSubmit", !.photoData = photoData,
                                    !.stored = localStorage]
    /\ selection' = << >>

\* onSubmit that does not look at photoData
onSubmitUnchecked(person) ==
    /\ issued < MaxSubmissions
    /\ Called("create", NoId, WithPhoto(person, photoData),
              addRegistrant(localStorage, WithPhoto(person, photoData),
                            UUID(issued + 1), now))
    /\ issued' = issued + 1
    /\ photoData' = EmptyString
    /\ Submitted
    /\ UNCHANGED now
    /\ UNCHANGED <<uploadType, preview, error, reads>>
    /\ UNCHANGED cameraVars
    /\ UNCHANGED <<dashVars, authVars, otherVars>>

\* onSubmit of RegistrationForm with the fields the form library validated:
\* the alert and nothing else when photoData is empty; else
\* addRegistrant({...data, photoData}), then reset() and setPhotoData(''),
\* with no task of the browser between the two
onSubmit(person) ==
    /\ IF ~Truthy(photoData)
       THEN UNCHANGED <<storeVars, photoData>>
       ELSE /\ issued < MaxSubmissions
            /\ Called("create", NoId, WithPhoto(person, photoData),
                      addRegistrant(localStorage, WithPhoto(person, photoData),
                                    UUID(issued + 1), now))
            /\ issued' = issued + 1
            /\ photoData' = EmptyString
            /\ UNCHANGED now
    /\ Submitted
    /\ UNCHANGED <<uploadType, preview, error, reads>>
    /\ UNCHANGED cameraVars
    /\ UNCHANGED <<dashVars, authVars, otherVars>>

\* two image files within the size limit
FormFiles ==
    {[type |-> <<"image", "/", "png">>, size |-> MaxFileSize - 1],
     [type |-> <<"image", "/", "jpeg">>, size |-> MaxFileSize]}

\* the registration form with its file adapter: files are chosen while reads
\* of earlier ones are in flight
FormNext ==
    \/ \E type \in {<<"camera">>, <<"file">>} : setUploadType(type)
    \/ \E file \in FormFiles : handleFileChange(file)
    \/ \E i \in 1..MaxReads : onload(i)
    \/ clearImage
    \/ onSubmit(Person1)

FormSpec == Init /\ [][FormNext]_vars

-----------------------------------------------------------------------------
(* services/registrationService called from two tabs on one localStorage *)

\* the storage as the operation of a tab sees it: the collection it read
Seen(ls, stored) == (STORAGE_KEY :> stored) @@ ls

\* the store function of an operation, on a storage
Applied(op, ls, id, data, uuid, t) ==
    CASE op = "create" -> addRegistrant(ls, data, uuid, t)
      [] op = "update" -> updateRegistrant(ls, id, data, t)
      [] op = "delete" -> deleteRegistrant(ls, id)

\* the operation reached its localStorage.setItem
Wrote(op, returned) ==
    CASE op = "create" -> TRUE
      [] op = "update" -> returned.kind = "object"
      [] op = "delete" -> returned.value = TRUE

\* a read that returns the empty collection whatever is stored
ReadNothing(ls) == << >>

\* the collection an operation's getAllRegistrants returns
ReadCollection(ls) == getAllRegistrants(ls)

\* a tab begins a store operation: getAllRegistrants()
TabRead(tab, op, id, data) ==
    /\ tabs[tab].phase = "idle"
    /\ op = "create" => issued < MaxTabIds
    /\ localStorage' = initializeStorage(localStorage)
    /\ tabs' = [tabs EXCEPT ![tab] =
                   [phase |-> "read", op |-> op, id |-> id, data |-> data,
                    registrants |-> ReadCollection(localStorage), overtaken |-> FALSE]]
    /\ UNCHANGED <<expected, interleaved>>
    /\ UNCHANGED <<now, issued, call, ret, pre, created>>
    /\ UNCHANGED <<dashVars, authVars, photoVars, editVars>>

\* the tab completes its operation on the collection it read: the change of
\* one record, then localStorage.setItem of the whole collection
TabWrite(tab) ==
    /\ tabs[tab].phase = "read"
    /\ tabs[tab].op = "create" => issued < MaxTabIds
    /\ LET this == tabs[tab]
           uuid == UUID(issued + 1)
           outcome == Applied(this.op, Seen(localStorage, this.registrants),
                              this.id, this.data, uuid, now)
           whole == Applied(this.op, Seen(localStorage, expected),
                            this.id, this.data, uuid, now)
           wrote == Wrote(this.op, outcome.ret)
       IN  /\ localStorage' = IF wrote THEN outcome.ls ELSE localStorage
           /\ ret' = outcome.ret
           /\ call' = [op |-> this.op, id |-> this.id, data |-> this.data, at |-> now]
           /\ pre' = this.registrants
           /\ created' = JustCreated
           /\ issued' = IF this.op = "create" THEN issued + 1 ELSE issued
           /\ expected' = getAllRegistrants(whole.ls)
           /\ interleaved' = (interleaved \/ this.overtaken)
           /\ tabs' = [other \in Tabs |->
                          IF other = tab THEN Idle
                          ELSE IF wrote /\ tabs[other].phase = "read"
                               THEN [tabs[other] EXCEPT !.overtaken = TRUE]
                               ELSE tabs[other]]
    /\ UNCHANGED now
    /\ UNCHANGED <<dashVars, authVars, photoVars, editVars>>

\* the ids the tabs update and delete
TabIds == {UUID(n) : n \in 1..MaxTabIds}

TabsNext ==
    \/ \E tab \in Tabs : TabRead(tab, "create", NoId, Data1)
    \/ \E tab \in Tabs, id \in TabIds : TabRead(tab, "update", id, Data4)
    \/ \E tab \in Tabs, id \in TabIds : TabRead(tab, "delete", id, NoData)
    \/ \E tab \in Tabs : TabWrite(tab)

TabsSpec == Init /\ [][TabsNext]_vars

-----------------------------------------------------------------------------
(* components/EditRegistrant, on the route /admin/edit/:id *)

NotFound == <<"Registrant not found">>
UpdateFailed == <<"Failed to update registrant">>

\* the view is unmounted: its state is gone
EditUnmounted ==
    /\ editId' = NoId
    /\ editPhotoData' = EmptyString
    /\ editIsLoading' = TRUE
    /\ editError' = Null

\* the load effect, when it leaves error null where no record is found: the
\* form is rendered
EditLoadedShowingForm(id, found) ==
    /\ route' = "edit"
    /\ editId' = id
    /\ editError' = Null
    /\ editPhotoData' = IF found.kind = "object"
                        THEN Or(Prop(found.value, "photoData"), EmptyString)
                        ELSE EmptyString
    /\ editIsLoading' = FALSE
    /\ editCall' = EditDid("open", FALSE, FALSE)

\* the load effect after getRegistrantById(id) returned: setError when there is
\* no record, else setValue of the six fields (held by the form library) and
\* setPhotoData when the record has a photo; setIsLoading(false) in both cases
EditLoaded(id, found) ==
    /\ route' = "edit"
    /\ editId' = id
    /\ editError' = IF found.kind = "object" THEN Null ELSE NotFound
    /\ editPhotoData' = IF found.kind = "object"
                        THEN Or(Prop(found.value, "photoData"), EmptyString)
                        ELSE EmptyString
    /\ editIsLoading' = FALSE
    /\ editCall' = EditDid("open", FALSE, FALSE)

\* the route /admin/edit/:id is opened, from a row's link or by its address:
\* first render, then the load effect
EditOpen(id) ==
    /\ route = "dashboard"
    /\ Called("getById", id, NoData, getRegistrantById(localStorage, id))
    /\ EditLoaded(id, getRegistrantById(localStorage, id).ret)
    /\ UNCHANGED <<now, issued>>
    /\ UNCHANGED <<dashVars, authVars, photoVars, tabVars>>

\* the form is rendered: neither the spinner nor the error view
EditFormShown == route = "edit" /\ ~editIsLoading /\ editError = Null

\* handlePhotoCapture(imageData), and reader.onload of handleFileUpload with a
\* result: setPhotoData
EditPhoto(photo) ==
    /\ EditFormShown
    /\ editPhotoData' = photo
    /\ editCall' = EditDid("photo", TRUE, FALSE)
    /\ UNCHANGED <<route, editId, editIsLoading, editError>>
    /\ UNCHANGED <<storeVars, dashVars, authVars, photoVars, tabVars>>

\* onSubmit with the fields of the form: updateRegistrant(id, {...data,
\* photoData}), then navigate when it returned a record, else setError
EditSubmit(fields) ==
    /\ EditFormShown
    /\ LET data == WithPhoto(fields, editPhotoData)
           outcome == updateRegistrant(localStorage, editId, data, now)
       IN  /\ Called("update", editId, data, outcome)
           /\ IF outcome.ret.kind = "object"
              THEN /\ route' = "dashboard"
                   /\ EditUnmounted
                   /\ editCall' = EditDid("submit", editCall.supplied, TRUE)
              ELSE /\ editError' = UpdateFailed
                   /\ editCall' = EditDid("submit", editCall.supplied, FALSE)
                   /\ UNCHANGED <<route, editId, editPhotoData, editIsLoading>>
    /\ UNCHANGED <<now, issued>>
    /\ UNCHANGED <<dashVars, authVars, photoVars, tabVars>>

\* the Back to Dashboard button of the error view, the arrow of the header and
\* the Cancel button: navigate('/admin/dashboard')
EditBack ==
    /\ route = "edit"
    /\ ~editIsLoading
    /\ route' = "dashboard"
    /\ EditUnmounted
    /\ editCall' = EditDid("back", editCall.supplied, TRUE)
    /\ UNCHANGED <<storeVars, dashVars, authVars, photoVars, tabVars>>

\* the records registered, with a photo and without one
EditInputs == {Data1, Data2}

\* what setPhotoData is called with: a new photo, and '' from CameraCapture's
\* clearImage
EditPhotos == {Photo2, EmptyString}

EditNext ==
    \/ Tick
    \/ \E data \in EditInputs : Create(data)
    \/ \E id \in UUIDs : Delete(id)
    \/ \E id \in UUIDs : EditOpen(id)
    \/ \E photo \in EditPhotos : EditPhoto(photo)
    \/ EditSubmit(FieldsB)
    \/ EditBack

EditSpec == Init /\ [][EditNext]_vars

-----------------------------------------------------------------------------
(* Properties of the registrant store *)

\* the keys of a Registrant
RegistrantKeys ==
    {"id", "fullName", "email", "phone", "address", "gender", "dateOfBirth",
     "photoPath", "photoData", "createdAt"}

\* the six text fields updateRegistrant replaces
TextKeys == {"fullName", "email", "phone", "address", "gender", "dateOfBirth"}

\* two objects agree on every key of a set
SameOn(keys, a, b) == \A k \in keys : Prop(a, k) = Prop(b, k)

\* the ids of a list of records, in order
IdsOf(list) == [i \in 1..Len(list) |-> Prop(list[i], "id")]

\* the position in the collection before the last call of the id it was given
Target == findIndex(pre, call.id)

\* the last call was an updateRegistrant that found its record
Updated == call.op = "update" /\ ret.kind = "object"

\* C1: the ids of the records of the persisted collection are pairwise
\* distinct in every state reached by create, update and delete calls.
C1_UniqueIds ==
    \A i, j \in 1..Len(Collection) :
        Prop(Collection[i], "id") = Prop(Collection[j], "id") => i = j

\* a create that follows a delete, into a collection that holds records
C1_Witness ==
    /\ call.op = "create"
    /\ Len(Collection) >= 2
    /\ issued > Len(Collection)

\* C2: a record keeps its id and createdAt for as long as it is in the
\* collection; a successful update returns and persists the id and createdAt
\* the record had before the call.
C2_IdAndCreatedAtKept ==
    /\ \A i \in 1..Len(pre), j \in 1..Len(Collection) :
           Prop(pre[i], "id") = Prop(Collection[j], "id")
               => Prop(Collection[j], "createdAt") = Prop(pre[i], "createdAt")
    /\ Updated =>
           /\ Target # 0
           /\ Prop(ret.value, "id") = call.id
           /\ SameOn({"id", "createdAt"}, ret.value, pre[Target])
           /\ SameOn({"id", "createdAt"}, Collection[Target], pre[Target])

\* an update made at a later time than the record's creation
C2_Witness ==
    /\ Updated
    /\ Prop(pre[Target], "createdAt") # ISOString(call.at)

\* C3: an update whose incoming photoData is empty or absent returns and
\* persists the stored photoData and photoPath unchanged, and the six text
\* fields as supplied.
C3_UpdateKeepsPhoto ==
    (Updated /\ ~Truthy(call.data.photoData)) =>
        /\ SameOn({"photoData", "photoPath"}, ret.value, pre[Target])
        /\ SameOn({"photoData", "photoPath"}, Collection[Target], pre[Target])
        /\ SameOn(TextKeys, ret.value, call.data)
        /\ SameOn(TextKeys, Collection[Target], call.data)

\* such an update of a record that has a photo and other text fields
C3_Witness ==
    /\ Updated
    /\ ~Truthy(call.data.photoData)
    /\ Truthy(Prop(pre[Target], "photoData"))
    /\ \A k \in TextKeys : Prop(pre[Target], k) # Prop(call.data, k)

\* C4: an update with a non-empty incoming photoData returns and persists a
\* record whose photoData is the incoming one and whose photoPath is the
\* non-empty path computed from the time of the update.
C4_UpdateReplacesPhoto ==
    (Updated /\ Truthy(call.data.photoData)) =>
        \A r \in {ret.value, Collection[Target]} :
            /\ Prop(r, "photoData") = call.data.photoData
            /\ Prop(r, "photoPath") = PhotoPath(call.at)
            /\ Prop(r, "photoPath") # EmptyString

\* such an update of a record that had another photo and an older path
C4_Witness ==
    /\ Updated
    /\ Truthy(call.data.photoData)
    /\ Truthy(Prop(pre[Target], "photoData"))
    /\ Prop(pre[Target], "photoData") # call.data.photoData
    /\ Prop(pre[Target], "photoPath") # PhotoPath(call.at)

\* C5: an update with an id that matches no record returns null and leaves
\* the persisted collection as it was, record for record and in order.
C5_UpdateUnknownId ==
    (call.op = "update" /\ Target = 0) =>
        /\ ret = ReturnedNull
        /\ Collection = pre

\* an update with an unknown id while the collection holds records
C5_Witness ==
    /\ call.op = "update"
    /\ Target = 0
    /\ Len(pre) >= 2

\* C6: delete returns true exactly when a record with the id was in the
\* collection; the collection is then the prior one without that record, the
\* others in their order; else it returns false and the collection is the
\* prior one.
C6_Delete ==
    call.op = "delete" =>
        /\ ret.kind = "boolean"
        /\ ret.value <=> (Target # 0)
        /\ ret.value => Collection = RemoveAt(pre, Target)
        /\ ~ret.value => Collection = pre

\* a delete of the middle record of three
C6_Witness ==
    /\ call.op = "delete"
    /\ ret.value
    /\ Len(pre) = 3
    /\ Target = 2

\* C7: getById of the id a create just returned yields a record equal to the
\* returned one in every field.
C7_CreateThenGetById ==
    (call.op = "getById" /\ created.kind = "object"
        /\ call.id = Prop(created.value, "id")) =>
        /\ ret.kind = "object"
        /\ SameOn(RegistrantKeys, ret.value, created.value)

\* such a lookup of a record created without a photo, after other records
C7_Witness ==
    /\ call.op = "getById"
    /\ created.kind = "object"
    /\ call.id = Prop(created.value, "id")
    /\ Prop(created.value, "photoData") = Undefined
    /\ Len(pre) >= 2

\* the number of the draw that produced an id
DrawOf(id) == CHOOSE n \in 1..MaxIds : UUID(n) = id

\* C8: list returns every surviving record once, oldest first: create puts
\* the new record last, update keeps the record's position, delete keeps the
\* order of the others.
C8_ListInCreationOrder ==
    /\ \A i, j \in 1..Len(Collection) :
           i < j => DrawOf(Prop(Collection[i], "id")) < DrawOf(Prop(Collection[j], "id"))
    /\ call.op = "list" => (ret.value = pre /\ Collection = pre)
    /\ call.op = "create" =>
           IdsOf(Collection) = Append(IdsOf(pre), Prop(ret.value, "id"))
    /\ call.op = "update" => IdsOf(Collection) = IdsOf(pre)
    /\ call.op = "delete" =>
           IdsOf(Collection) = SelectSeq(IdsOf(pre), LAMBDA id : id # call.id)

\* a listing of two records after three creates and a delete
C8_Witness ==
    /\ call.op = "list"
    /\ Len(ret.value) = 2
    /\ issued = 3

\* a record has no photo: photoData absent or empty
NoPhoto(r) == ~Truthy(Prop(r, "photoData"))

\* the path is empty exactly when the record has no photo
PairConsistent(r) == (Prop(r, "photoPath") = EmptyString) <=> NoPhoto(r)

\* the last call created a record from data without a photo
CreatedWithoutPhoto == call.op = "create" /\ ~Truthy(call.data.photoData)

\* C9 as stated: every record's photoPath is empty exactly when it has no
\* photo, and a record created with no photo has an empty photoPath and no
\* photoData key.
C9_Original ==
    /\ \A i \in 1..Len(Collection) : PairConsistent(Collection[i])
    /\ CreatedWithoutPhoto =>
           /\ Prop(Collection[Len(Collection)], "photoPath") = EmptyString
           /\ "photoData" \notin DOMAIN Collection[Len(Collection)]

\* C9 as amended: every record's photoPath is empty exactly when it has no
\* photo, and a record created with no photo has an empty photoPath and a
\* photoData that is absent or the empty string, as supplied.
C9_PhotoPairConsistent ==
    /\ \A i \in 1..Len(Collection) : PairConsistent(Collection[i])
    /\ CreatedWithoutPhoto =>
           /\ Prop(Collection[Len(Collection)], "photoPath") = EmptyString
           /\ Prop(ret.value, "photoPath") = EmptyString
           /\ Prop(Collection[Len(Collection)], "photoData") = call.data.photoData
           /\ Prop(Collection[Len(Collection)], "photoData") \in {Undefined, EmptyString}

\* a create with the empty string for photoData
C9_Witness ==
    /\ call.op = "create"
    /\ call.data.photoData = EmptyString
    /\ Len(Collection) >= 1

-----------------------------------------------------------------------------
(* Properties of the dashboard's filtered view *)

\* a character with its case removed: both small sigmas are the letter sigma
Fold(c) == IF c = SmallFinalSigma THEN SmallSigma ELSE LowerOf(c)

\* part occurs in str, case apart
CaseInsensitiveSubstring(part, str) ==
    \E k \in 0..(Len(str) - Len(part)) :
        \A i \in 1..Len(part) : Fold(str[k + i]) = Fold(part[i])

\* the term is empty or holds white space only
Blank(term) == \A i \in 1..Len(term) : term[i] \in WhiteSpace

\* the records the search is to select
Selected(registrant, term) ==
    \/ Blank(term)
    \/ CaseInsensitiveSubstring(term, Prop(registrant, "fullName"))
    \/ CaseInsensitiveSubstring(term, Prop(registrant, "email"))
    \/ includes(Prop(registrant, "phone"), term)

\* C10: the filtered view is the sub-sequence of the listing made of the
\* records for which the term is blank, or a case-insensitive substring of
\* the name or the email, or a substring of the phone; a term that is a
\* substring of a record's name selects that record, and a term that matches
\* no record gives an empty view.
C10_FilteredView ==
    mounted =>
        /\ filteredRegistrants =
               SelectSeq(registrants, LAMBDA registrant : Selected(registrant, searchTerm))
        /\ \A i \in 1..Len(registrants) :
               includes(Prop(registrants[i], "fullName"), searchTerm)
                   => \E j \in 1..Len(filteredRegistrants) :
                          filteredRegistrants[j] = registrants[i]
        /\ (\A i \in 1..Len(registrants) : ~Selected(registrants[i], searchTerm))
               => filteredRegistrants = << >>

-----------------------------------------------------------------------------
(* Properties of the dashboard's pagination *)

\* C11: once a change of the search term has been processed the page index
\* is 1, whatever it was before the change.
C11_SearchResetsPage == searchedFrom # 0 => currentPage = 1

\* a change of the search term made while page 2 was shown
C11_Witness == searchedFrom = 2 /\ currentPage = 1

RECURSIVE PagesUpTo(_, _)
PagesUpTo(list, page) ==
    IF page = 0 THEN << >> ELSE PagesUpTo(list, page - 1) \o ItemsOfPage(list, page)

\* C13: for a filtered view of N records and page size K the page count is
\* ceil(N/K), every page before the last shows K items, the last shows
\* N - K*(totalPages - 1), and the pages in order make up the filtered view.
C13_Pagination ==
    LET N == Len(filteredRegistrants)
        K == itemsPerPage
    IN  /\ totalPages * K >= N
        /\ (totalPages - 1) * K < N
        /\ \A page \in 1..(totalPages - 1) :
               Len(ItemsOfPage(filteredRegistrants, page)) = K
        /\ totalPages >= 1 =>
               Len(ItemsOfPage(filteredRegistrants, totalPages)) = N - K * (totalPages - 1)
        /\ PagesUpTo(filteredRegistrants, totalPages) = filteredRegistrants
        /\ currentItems = ItemsOfPage(filteredRegistrants, currentPage)

\* the second page of a filtered view of six records
C13_Witness ==
    /\ mounted
    /\ Len(filteredRegistrants) = 6
    /\ currentPage = 2
    /\ Len(currentItems) = 1

-----------------------------------------------------------------------------
(* Properties of the admin session *)

\* the value login persists for the one valid pair
PersistedAdmin == Returned("string", JSONObject(adminUser(<<"admin">>)))

\* C14: after a login with the valid pair isAuthenticated is true and the
\* session is persisted; a restarted provider with that persisted session
\* runs its startup effect, after which isAuthenticated is true again with
\* no login in between.
C14_SessionSurvivesRestart ==
    /\ [](authCall.op = "login" /\ ValidPair(authCall.username, authCall.password)
            => /\ authCall.result = True
               /\ isAuthenticated = True
               /\ admin = Returned("object", adminUser(<<"admin">>))
               /\ getItem(localStorage, ADMIN_KEY) = PersistedAdmin)
    /\ [](authCall.op = "startup" /\ authPre.persisted = PersistedAdmin
            => /\ isAuthenticated = True
               /\ admin = Returned("object", adminUser(<<"admin">>))
               /\ getItem(localStorage, ADMIN_KEY) = PersistedAdmin)
    /\ (authCall.op = "restart" /\ authPre.isAuthenticated = True)
          ~> (authCall.op = "startup" /\ isAuthenticated = True)

\* the startup effect has restored the session of a provider that was
\* authenticated when the page was loaded again
C14_Witness ==
    /\ authCall.op = "startup"
    /\ authPre.persisted = PersistedAdmin
    /\ isAuthenticated = True
    /\ ~loggedOut

\* C15: a login with any pair but the valid one returns false and leaves
\* admin, isAuthenticated and the persisted session as they were.
C15_FailedLoginChangesNothing ==
    authCall.op = "login" /\ ~ValidPair(authCall.username, authCall.password)
        => /\ authCall.result = False
           /\ CurrentSession = authPre

\* a wrong password for the right username, tried while a session exists
C15_Witness ==
    /\ authCall.op = "login"
    /\ authCall.username = <<"admin">>
    /\ authCall.password = <<"Admin123">>
    /\ isAuthenticated = True
    /\ authPre.persisted = PersistedAdmin

\* a failed login tried while no session exists
C15_WitnessNoSession ==
    /\ authCall.op = "login"
    /\ authCall.result = False
    /\ authPre = Session(ReturnedNull, False, ReturnedNull)

\* C16: after logout admin is null, isAuthenticated is false and the
\* persisted key is absent, and they stay so through a restart until a login
\* succeeds.
C16_LogoutEndsSession ==
    loggedOut
        => /\ admin = ReturnedNull
           /\ isAuthenticated = False
           /\ ADMIN_KEY \notin DOMAIN localStorage

\* the provider restarted after the logout of an authenticated session
C16_Witness ==
    /\ loggedOut
    /\ authCall.op = "startup"
    /\ authPhase = "started"
    /\ Len(Collection) > 0

-----------------------------------------------------------------------------
(* Properties of the camera adapter *)

\* C17: every stream a granted request returned is released on every exit
\* path: a stream whose tracks are not stopped yet is the one the mounted
\* adapter holds, which capture, cancel and teardown stop, so that no stream
\* stays live once the adapter is torn down or the request was granted with
\* no video element.
C17_StreamsReleased ==
    \A s \in 1..Len(tracks) : tracks[s] = "live" => CameraMounted /\ stream = s

\* C18: when the request of the mounted adapter is granted the adapter is in
\* the camera-active state: isCameraActive, the stream of the grant held and
\* live, the video element rendered for the capture trigger.
C18_GrantActivates ==
    camCall.op = "granted" /\ camCall.mounted
        => /\ isCameraActive
           /\ stream = camCall.stream
           /\ tracks[camCall.stream] = "live"
           /\ VideoRendered

\* the three categories of failure the catch block names
NamedCategories == {"NotAllowedError", "NotFoundError", "NotReadableError"}

\* C19: a request of the mounted adapter that fails with permission denied,
\* device not found or device busy shows a message that differs between the
\* three categories, leaves no camera active and no stream held, hands
\* nothing to onCapture, and leaves the Open Camera button and the switch to
\* the file adapter available.
C19_FailureLeavesCameraOff ==
    camCall.op = "failed" /\ camCall.mounted /\ camCall.category \in NamedCategories
        => /\ hasPermission = False
           /\ errorMessage = Message(camCall.category)
           /\ \A other \in NamedCategories \ {camCall.category} :
                  errorMessage # Message(other)
           /\ ~isCameraActive
           /\ stream = 0
           /\ camCall.delivered = << >>
           /\ photoData = camCall.photoData
           /\ OpenCameraShown
           /\ ENABLED startCamera
           /\ ENABLED setUploadType(<<"file">>)

\* the camera was busy
C19_Witness ==
    /\ camCall.op = "failed"
    /\ camCall.mounted
    /\ camCall.category = "NotReadableError"
    /\ errorMessage =
          <<"Camera is in use by another application. Please close other apps using the camera.">>

-----------------------------------------------------------------------------
(* Properties of the file adapter *)

\* the declared content type is an image type: image/...
ImageType(type) == Len(type) >= 2 /\ type[1] = "image" /\ type[2] = "/"

\* handleFileChange was handed a file and nothing happened since
FileHandled == fileCall.op = "handleFileChange" /\ fileCall.file # NoFile

\* C20: a file whose type is not an image type or whose size exceeds 5 MiB
\* is rejected (error set, onFileSelect not called, the owner's photoData and
\* the storage as before); an image of at most 5 MiB is accepted (error
\* cleared, onFileSelect called exactly once, with the file).
C20_FileValidation ==
    FileHandled =>
        IF ~ImageType(fileCall.file.type) \/ fileCall.file.size > MaxFileSize
        THEN /\ error # Null
             /\ fileCall.delivered = << >>
             /\ photoData = fileCall.photoData
             /\ localStorage = fileCall.stored
        ELSE /\ error = Null
             /\ fileCall.delivered = <<fileCall.file>>

-----------------------------------------------------------------------------
(* Further properties of the registrant store *)

\* C22: a mutating store operation changes one record: a successful update
\* leaves the length of the collection and every record with another id
\* unchanged, and a create leaves every record that existed unchanged.
C22_OneRecordChanged ==
    /\ Updated =>
           /\ Len(Collection) = Len(pre)
           /\ \A i \in 1..Len(pre) :
                  Prop(pre[i], "id") # call.id => Collection[i] = pre[i]
    /\ call.op = "create" =>
           /\ Len(Collection) = Len(pre) + 1
           /\ SubSeq(Collection, 1, Len(pre)) = pre

\* an update of the second of three records that changes its name
C22_Witness ==
    /\ Updated
    /\ Len(pre) = 3
    /\ Target = 2
    /\ Collection[2] # pre[2]

-----------------------------------------------------------------------------
(* Further properties of the dashboard *)

\* the ids of the persisted records
StoredIds == {Prop(Collection[i], "id") : i \in 1..Len(Collection)}

\* C25: a step removes a record only when it is a delete click on the record
\* that was pending, and then no record is pending; a delete click on a
\* record that was not pending removes nothing and makes it the pending one;
\* a cancel click removes nothing and leaves no record pending; and the
\* pending mark changes with these clicks or with the view alone, so that a
\* record is removed only by two delete clicks on it with no cancel and no
\* delete click on another record in between.
C25_DeleteNeedsTwoClicks ==
    [][/\ \A id \in StoredIds : id \notin StoredIds'
              => /\ lastClick' = Click("delete", id)
                 /\ deleteConfirm = id
                 /\ deleteConfirm' = Null
                 /\ StoredIds' = StoredIds \ {id}
       /\ lastClick'.button = "delete" /\ deleteConfirm # lastClick'.id
              => /\ StoredIds' = StoredIds
                 /\ deleteConfirm' = lastClick'.id
       /\ lastClick'.button = "delete" /\ deleteConfirm = lastClick'.id
              => lastClick'.id \notin StoredIds'
       /\ lastClick'.button = "cancel"
              => /\ StoredIds' = StoredIds
                 /\ deleteConfirm' = Null
       /\ deleteConfirm' # deleteConfirm /\ mounted' = mounted
              => lastClick'.button \in {"delete", "cancel"}]_vars

\* the second delete click on a record has removed it and others remain
C25_Witness ==
    /\ mounted
    /\ lastClick.button = "delete"
    /\ lastClick.id \notin StoredIds
    /\ deleteConfirm = Null
    /\ issued = Len(Collection) + 1
    /\ Len(Collection) >= 1

-----------------------------------------------------------------------------
(* Further properties of the admin session *)

\* the persisted admin key holds a record whose isAuthenticated is true
PersistedAuthenticated ==
    LET storedAdmin == getItem(localStorage, ADMIN_KEY)
    IN  IF storedAdmin.kind = "null" THEN FALSE
        ELSE Prop(storedAdmin.value, "isAuthenticated") = True

\* C29: once the startup effect has run, isAuthenticated is true exactly
\* when the persisted admin key holds a record with isAuthenticated true,
\* and the admin record in memory is null exactly when the key is absent.
C29_MemoryAgreesWithStorage ==
    authPhase = "started"
        => /\ (isAuthenticated = True) <=> PersistedAuthenticated
           /\ (admin = ReturnedNull) <=> (ADMIN_KEY \notin DOMAIN localStorage)

\* a logout from an authenticated session, after a failed and a valid login
C29_Witness ==
    /\ authPhase = "started"
    /\ authCall.op = "logout"
    /\ authPre.isAuthenticated = True
    /\ authPre.persisted = PersistedAdmin
    /\ ADMIN_KEY \notin DOMAIN localStorage

-----------------------------------------------------------------------------
(* Properties of the store under two tabs *)

\* C21: as long as no operation completed after another tab had written
\* since it read, as is the case with a single session, the persisted
\* collection is the one that the completed creates, updates and deletes
\* give one after the other; with two tabs there is a reachable state
\* (C21_Witness) where a completed create is missing from it.
C21_SingleSessionKeepsAll == ~interleaved => Collection = expected

\* both tabs created a record, each from the empty collection it had read:
\* the collection holds the record of the tab that wrote last, the other
\* record is lost
C21_Witness ==
    /\ \A tab \in Tabs : tabs[tab].phase = "idle"
    /\ interleaved
    /\ issued = 2
    /\ Len(expected) = 2
    /\ Len(Collection) = 1
    /\ Prop(Collection[1], "id") = UUID(2)

-----------------------------------------------------------------------------
(* Properties of the edit view *)

\* the error view with the not-found message is what is rendered
NotFoundShown == route = "edit" /\ ~editIsLoading /\ editError = NotFound

\* the last thing the view did was to open on an id the store does not hold
OpenedUnknown == editCall.op = "open" /\ call.op = "getById" /\ ret.kind = "undefined"

\* C23: opening the edit view on an id the store does not hold shows the
\* not-found message on the edit route, with no navigation until Back to
\* Dashboard is clicked, and while the message is shown no updateRegistrant is
\* called: the only thing the view then does is to go back.
C23_NotFoundMessage ==
    /\ [](OpenedUnknown => NotFoundShown /\ ~editCall.navigated)
    /\ [][NotFoundShown /\ editCall' # editCall
            => editCall'.op = "back" /\ call' = call /\ localStorage' = localStorage]_vars

\* the error view is shown for an id that was never issued, time having passed
C23_Witness ==
    /\ NotFoundShown
    /\ OpenedUnknown
    /\ editId = UUID(3)
    /\ issued = 2
    /\ Len(Collection) = 2

\* C23 as stated: opening the edit view on an unknown id shows the not-found
\* message together with a redirect to the admin dashboard.
C23_NotFoundRedirects ==
    OpenedUnknown => editCall.navigated /\ route = "dashboard"

\* C24: a save from the edit view in which no photo was captured or uploaded,
\* of a record that has a photo, leaves the record's photoData and photoPath
\* as they were.
C24_PhotoUntouched ==
    (/\ editCall.op = "submit"
     /\ ~editCall.supplied
     /\ Updated
     /\ Truthy(Prop(pre[Target], "photoData")))
        => /\ Prop(Collection[Target], "photoData") = Prop(pre[Target], "photoData")
           /\ Prop(Collection[Target], "photoPath") = Prop(pre[Target], "photoPath")

-----------------------------------------------------------------------------
(* Properties of the registration form *)

\* every read started has completed
DecodesDone == reads = << >>

\* the empty file of clearImage is the last file FileUpload handed over
Cleared == fileCall.delivered = <<EmptyFile>>

\* C26: after clearImage in the file adapter, once the reads have completed,
\* the form's photoData is empty, and a submit made then adds no record.
C26_ClearedMeansNoPhoto ==
    (Cleared /\ DecodesDone /\ fileCall.op \in {"onload", "onSubmit"})
        => IF fileCall.op = "onSubmit"
           THEN ~Truthy(fileCall.photoData) /\ localStorage = fileCall.stored
           ELSE photoData = EmptyString

\* C27: when two valid files were chosen one after the other, the reads of the
\* first still in flight, then once every read has completed the form's
\* photoData is the data URL of the second file and equals the preview.
C27_LastFileWins ==
    (UploadMounted /\ Len(selection) = 2 /\ DecodesDone)
        => photoData = DataURL(selection[2]) /\ preview = photoData

====
